---- MODULE Spec2Model ----
(***************************************************************************)
(* Job orchestration core of the NL-to-IaC backend (backend/src/api).      *)
(*                                                                         *)
(* The ledger is the Firestore collection 'jobs' (JobService), the         *)
(* artifact store is StorageService in local mode, the generation engine   *)
(* is the crewai_service collaborator handed to JobService.  Request       *)
(* handlers and background tasks of several server instances share the     *)
(* ledger and the store, so every ledger call, engine call and store call  *)
(* is one step and steps of different handlers and tasks interleave.       *)
(*                                                                         *)
(* A Firestore document carries only the fields that were written to it:   *)
(* a job record is a function from the written field names to values.      *)
(*                                                                         *)
(* The engine is whatever object JobService was constructed with: a call   *)
(* either returns or raises.  (The CrewAIService of services/crewai_service *)
(* takes other arguments than process_job passes, so with it the stage-1   *)
(* call always raises; that is the raising outcome.)                       *)
(***************************************************************************)
EXTENDS Integers, FiniteSets, Sequences, TLC

(* ---- bounds ---- *)
MaxJobs == 1
MaxConfirms == 2
MaxClock == 1

JobIds == 1..MaxJobs
Slots == 1..MaxConfirms

(* ---- JobStatus (models/api.py) ---- *)
PENDING == "pending"
PROCESSING == "processing"
DIAGRAMS_READY == "diagrams_ready"
CONFIRMED == "confirmed"
GENERATING == "generating"
COMPLETED == "completed"
FAILED == "failed"

JobStatus == {PENDING, PROCESSING, DIAGRAMS_READY, CONFIRMED, GENERATING, COMPLETED, FAILED}

(* A job id with no document in the collection. *)
NoJob == [status |-> "none"]

(* A field of a document or a local that holds no locator. *)
Absent == <<>>

(* No feedback in a ConfirmRequest (feedback: Optional[str] = None). *)
NoFeedback == "None"

VARIABLES
    jobs,       \* the ledger: job id -> document (NoJob when there is none)
    store,      \* the artifact store: job id -> files under the job's folder
    ptask,      \* the process_job background task of each job
    creq,       \* confirm requests: slot -> position, inputs, response
    gtask,      \* the generate_terraform task scheduled by each confirm slot
    calls,      \* engine invocations: job id -> [yaml, iac] call counts
    clock       \* the time datetime.utcnow() returns; no step of Spec reads a
                \* timestamp back, and Spec lets no time pass

vars == <<jobs, store, ptask, creq, gtask, calls, clock>>

(* datetime.utcnow() *)
utcnow == clock

(* ---- ledger: JobService ---- *)

(* doc_ref.update(updates): the named fields are overwritten, the rest kept. *)
Merge(doc, updates) ==
    [f \in (DOMAIN doc) \cup (DOMAIN updates) |->
        IF f \in DOMAIN updates THEN updates[f] ELSE doc[f]]

Exists(js, j) == js[j].status # "none"

(* JobService.create_job: doc_ref.set(job_data). *)
create_job(js, job_data) == [js EXCEPT ![job_data.job_id] = job_data]

(* JobService.update_job: no write when the document does not exist,
   otherwise the update is applied whatever the stored status is. *)
update_job(js, j, updates) ==
    IF ~Exists(js, j) THEN js ELSE [js EXCEPT ![j] = Merge(@, updates)]

(* JobService.get_job is called by the routers and by generate_terraform;
   the ledger read of the job document, falsy when there is none. *)
get_job(js, j) == js[j]

(* dict.get / dict[...] on a document read from the ledger. *)
Has(doc, f) == f \in DOMAIN doc

(* ---- artifact store: StorageService (local mode) ---- *)
(* The files of a job's folder by category; written records the
   <<category, filename>> of every store_file / store_text call. *)
EmptyFolder == [yaml |-> FALSE, diagrams |-> {}, terraform |-> {}, docs |-> FALSE,
                written |-> {}]

Url(j, path) == <<"/api/static", j, path>>

Ext(filename) ==
    CASE filename = "architecture.svg" -> ".svg"
      [] filename = "infrastructure.yaml" -> ".yaml"
      [] filename = "documentation.md" -> ".md"
      [] filename \in {"main.tf", "variables.tf", "outputs.tf"} -> ".tf"
      [] OTHER -> ""

(* StorageService._get_content_type *)
_get_content_type(filename) ==
    CASE Ext(filename) = ".png" -> "image/png"
      [] Ext(filename) = ".svg" -> "image/svg+xml"
      [] Ext(filename) = ".md" -> "text/markdown"
      [] Ext(filename) = ".tf" -> "text/plain"
      [] Ext(filename) = ".yaml" -> "text/yaml"
      [] OTHER -> "application/octet-stream"

(* get_diagram_urls: the placeholder is created when it does not exist, then
   every file of the folder is listed. *)
DiagramPlaceholders == {"architecture.svg"}

(* Variant of get_diagram_urls that lists the folder as it finds it. *)
DiagramFolderAsFound(folder) == folder.diagrams

DiagramFolderAfterListing(folder) == folder.diagrams \cup DiagramPlaceholders

get_diagram_urls(st, j) ==
    {[name |-> f, url |-> Url(j, <<"diagrams", f>>), type |-> _get_content_type(f)] :
        f \in DiagramFolderAfterListing(st[j])}

(* get_terraform_urls: the three placeholders are created when missing. *)
TerraformPlaceholders == {"main.tf", "variables.tf", "outputs.tf"}

TerraformFolderAfterListing(folder) == folder.terraform \cup TerraformPlaceholders

get_terraform_urls(st, j) ==
    {[name |-> f, url |-> Url(j, <<"terraform", f>>), type |-> "text/plain"] :
        f \in TerraformFolderAfterListing(st[j])}

(* ---- background task and request records ---- *)
NoPTask == [pc |-> "none", yaml_url |-> Absent, diagram_urls |-> {}, err |-> ""]

NoCReq == [pc |-> "idle", job_id |-> 0, confirmed |-> FALSE, feedback |-> NoFeedback,
           job |-> NoJob, seen |-> "none", code |-> 0, status |-> "none", message |-> ""]

NoGTask == [pc |-> "none", job_id |-> 0, tf_urls |-> {}, doc_url |-> Absent, err |-> ""]

Init ==
    /\ jobs = [j \in JobIds |-> NoJob]
    /\ store = [j \in JobIds |-> EmptyFolder]
    /\ ptask = [j \in JobIds |-> NoPTask]
    /\ creq = [k \in Slots |-> NoCReq]
    /\ gtask = [k \in Slots |-> NoGTask]
    /\ calls = [j \in JobIds |-> [yaml |-> 0, iac |-> 0]]
    /\ clock = 0

(* ---- POST /api/process (routers/process.py) ---- *)
HTTPException(status_code, detail) == [code |-> status_code, detail |-> detail]

ValidPrompt == "Create a VPC with a public subnet and a web server"
ValidProject == "demo-project"
ShortPrompt == "Make a VM"
ShortProject == "ab"

(* len() of the strings the requests carry. *)
StrLen(s) ==
    CASE s = ValidPrompt -> 50
      [] s = ValidProject -> 12
      [] s = ShortPrompt -> 9
      [] s = ShortProject -> 2

(* ProcessRequest: Field(..., min_length=...) *)
MinPromptLength == 10
MinProjectNameLength == 3

ProcessRequests ==
    {[prompt |-> ValidPrompt, cloud_provider |-> "gcp", project_name |-> ValidProject],
     [prompt |-> ShortPrompt, cloud_provider |-> "gcp", project_name |-> ValidProject],
     [prompt |-> ValidPrompt, cloud_provider |-> "gcp", project_name |-> ShortProject]}

(* Variant of the request validation that checks the prompt only. *)
ProcessRequestValidPromptOnly(request) ==
    StrLen(request.prompt) >= MinPromptLength

(* pydantic validation of the body, before the handler runs *)
ProcessRequestValid(request) ==
    /\ StrLen(request.prompt) >= MinPromptLength
    /\ StrLen(request.project_name) >= MinProjectNameLength

(* Variant in which the id drawn may be one already given out. *)
AnyJobId(j) == j \in JobIds

(* uuid4 is fresh: the next job id is one no document was created under. *)
FreshJobId(j) == /\ ~Exists(jobs, j)
                 /\ \A i \in JobIds : i < j => Exists(jobs, i)

NewJobData(j, prompt, cloud_provider, project_name) ==
    [job_id |-> j, status |-> PENDING, created_at |-> utcnow, updated_at |-> utcnow,
     prompt |-> prompt,
     cloud_provider |-> cloud_provider, project_name |-> project_name]

(* The response: 422 from the validation, or the 202 body of lines 51-57. *)
process_nl_prompt_response(j, request) ==
    IF ~ProcessRequestValid(request)
    THEN HTTPException(422, "validation error")
    ELSE [code |-> 202, job_id |-> j, status |-> PENDING, created_at |-> utcnow,
          updated_at |-> utcnow, message |-> "Job created and processing started"]

(* A request that fails validation never reaches the handler; a valid one
   creates the document and schedules process_job. *)
process_nl_prompt(j, request) ==
    /\ FreshJobId(j)
    /\ IF ProcessRequestValid(request)
       THEN /\ jobs' = create_job(jobs, NewJobData(j, request.prompt, request.cloud_provider,
                                                   request.project_name))
            /\ ptask' = [ptask EXCEPT ![j].pc = "start"]
       ELSE UNCHANGED <<jobs, ptask>>
    /\ UNCHANGED <<store, creq, gtask, calls, clock>>

(* ---- JobService.process_job ---- *)
(* Variant of the update of lines 60-65 that also restamps the creation
   time and blanks the project name. *)
ProcessingUpdatesOverInput ==
    [status |-> PROCESSING, current_step |-> "Generating YAML & Diagrams",
     updated_at |-> utcnow, progress |-> 10, created_at |-> utcnow, project_name |-> ""]

ProcessingUpdates ==
    [status |-> PROCESSING, current_step |-> "Generating YAML & Diagrams",
     updated_at |-> utcnow, progress |-> 10]

(* Variant of the update of lines 77-85 that leaves the status as it is. *)
DiagramsReadyUpdatesNoStatus(yaml_url, diagram_urls) ==
    [current_step |-> "Waiting for user confirmation",
     yaml_url |-> yaml_url, diagram_urls |-> diagram_urls, updated_at |-> utcnow,
     progress |-> 70,
     message |-> "Diagrams are ready for review"]

DiagramsReadyUpdates(yaml_url, diagram_urls) ==
    [status |-> DIAGRAMS_READY, current_step |-> "Waiting for user confirmation",
     yaml_url |-> yaml_url, diagram_urls |-> diagram_urls, updated_at |-> utcnow,
     progress |-> 70,
     message |-> "Diagrams are ready for review"]

(* Variant of the update of lines 89-94 that resets progress. *)
ProcessFailedUpdatesResetProgress(err) ==
    [status |-> FAILED, updated_at |-> utcnow, error |-> err, progress |-> 0,
     message |-> "CrewAI diagram generation failed"]

ProcessFailedUpdates(err) ==
    [status |-> FAILED, updated_at |-> utcnow, error |-> err,
     message |-> "CrewAI diagram generation failed"]

(* lines 60-65 *)
process_job_start(j) ==
    /\ ptask[j].pc = "start"
    /\ jobs' = update_job(jobs, j, ProcessingUpdates)
    /\ ptask' = [ptask EXCEPT ![j].pc = "engine"]
    /\ UNCHANGED <<store, creq, gtask, calls, clock>>

(* line 68: the engine call returns the yaml or raises; the engine works in
   its own output directory (CrewAIService.output_base), not in the store *)
process_job_engine(j) ==
    /\ ptask[j].pc = "engine"
    /\ calls' = [calls EXCEPT ![j].yaml = @ + 1]
    /\ \/ ptask' = [ptask EXCEPT ![j].pc = "store_yaml"]
       \/ ptask' = [ptask EXCEPT ![j].pc = "except", ![j].err = "engine error"]
    /\ UNCHANGED <<jobs, store, creq, gtask, clock>>

(* line 71: store_text(job_id, "yaml/infrastructure.yaml", ...) *)
process_job_store_yaml(j) ==
    /\ ptask[j].pc = "store_yaml"
    /\ \/ /\ store' = [store EXCEPT ![j].yaml = TRUE,
                                     ![j].written = @ \cup {<<"yaml", "infrastructure.yaml">>}]
          /\ ptask' = [ptask EXCEPT ![j].pc = "get_diagrams",
                                    ![j].yaml_url = Url(j, <<"yaml", "infrastructure.yaml">>)]
       \/ /\ ptask' = [ptask EXCEPT ![j].pc = "except", ![j].err = "store error"]
          /\ UNCHANGED store
    /\ UNCHANGED <<jobs, creq, gtask, calls, clock>>

(* line 74: get_diagram_urls(job_id) *)
process_job_get_diagrams(j) ==
    /\ ptask[j].pc = "get_diagrams"
    /\ \/ /\ store' = [store EXCEPT ![j].diagrams = DiagramFolderAfterListing(store[j])]
          /\ ptask' = [ptask EXCEPT ![j].pc = "finish",
                                    ![j].diagram_urls = get_diagram_urls(store, j)]
       \/ /\ ptask' = [ptask EXCEPT ![j].pc = "except", ![j].err = "store error"]
          /\ UNCHANGED store
    /\ UNCHANGED <<jobs, creq, gtask, calls, clock>>

(* lines 77-85 *)
process_job_finish(j) ==
    /\ ptask[j].pc = "finish"
    /\ jobs' = update_job(jobs, j, DiagramsReadyUpdates(ptask[j].yaml_url, ptask[j].diagram_urls))
    /\ ptask' = [ptask EXCEPT ![j] = [NoPTask EXCEPT !.pc = "done"]]
    /\ UNCHANGED <<store, creq, gtask, calls, clock>>

(* lines 87-94 *)
process_job_except(j) ==
    /\ ptask[j].pc = "except"
    /\ jobs' = update_job(jobs, j, ProcessFailedUpdates(ptask[j].err))
    /\ ptask' = [ptask EXCEPT ![j] = [NoPTask EXCEPT !.pc = "done"]]
    /\ UNCHANGED <<store, creq, gtask, calls, clock>>

(* ---- POST /api/confirm/{job_id} (routers/confirmation.py) ---- *)
(* The request bodies sent: ConfirmRequest(confirmed, feedback). *)
ConfirmRequests ==
    {[confirmed |-> TRUE, feedback |-> "Looks good!"],
     [confirmed |-> FALSE, feedback |-> NoFeedback],
     [confirmed |-> FALSE, feedback |-> "not what I wanted"]}

(* `request.feedback if request.feedback else ...`: None and "" are falsy. *)
Truthy(feedback) == feedback \notin {NoFeedback, ""}

(* Variants of the check of line 29: no check of the status at all, and a
   check that also lets a completed job through. *)
ConfirmPreconditionAny(job) == job.status # "none"
ConfirmPreconditionOrCompleted(job) == job.status \in {DIAGRAMS_READY, COMPLETED}

(* line 29: the handler goes on only from diagrams_ready *)
ConfirmPrecondition(job) == job.status = DIAGRAMS_READY

(* lines 37-42 *)
RejectUpdates(feedback) ==
    [status |-> FAILED, updated_at |-> utcnow, error |-> "User rejected the diagrams",
     message |-> IF Truthy(feedback) THEN feedback ELSE "Diagrams rejected by user"]

(* lines 44-51 *)
RejectResponse == [code |-> 200, status |-> FAILED, message |-> "Generation cancelled by user"]

(* Variant of the update of lines 54-56 that also stores the status the
   response reports. *)
ConfirmUpdatesWithStatus(job) == [yaml_content |-> job.yaml_url, status |-> CONFIRMED]

(* lines 54-56 *)
ConfirmUpdates(job) == [yaml_content |-> job.yaml_url]

(* lines 65-71 *)
ConfirmResponse ==
    [code |-> 200, status |-> CONFIRMED,
     message |-> "User confirmed diagrams, generating Terraform..."]

(* line 26, lines 30-33, lines 75-77 *)
ErrorResponse(code) == [code |-> code, status |-> "none", message |-> "error"]

Respond(req, resp) ==
    [req EXCEPT !.pc = "done", !.job = NoJob, !.feedback = NoFeedback, !.code = resp.code,
                !.status = resp.status, !.message = resp.message]

(* Requests take the slots in order. *)
NextSlot(k) == /\ creq[k].pc = "idle"
               /\ \A i \in Slots : i < k => creq[i].pc # "idle"

(* lines 22-33: the read of the job and the two checks on it *)
confirm_diagrams_read(k, j, request) ==
    LET job == get_job(jobs, j)
        req == [creq[k] EXCEPT !.job_id = j, !.confirmed = request.confirmed,
                               !.feedback = request.feedback]
    IN  /\ NextSlot(k)
        /\ creq' = [creq EXCEPT ![k] =
                      IF job = NoJob THEN Respond(req, ErrorResponse(404))
                      ELSE IF ~ConfirmPrecondition(job) THEN Respond(req, ErrorResponse(400))
                      ELSE [req EXCEPT !.pc = "checked", !.job = job, !.seen = job.status]]
        /\ UNCHANGED <<jobs, store, ptask, gtask, calls, clock>>

(* lines 36-51: confirmed is false *)
confirm_diagrams_reject(k) ==
    /\ creq[k].pc = "checked"
    /\ ~creq[k].confirmed
    /\ jobs' = update_job(jobs, creq[k].job_id, RejectUpdates(creq[k].feedback))
    /\ creq' = [creq EXCEPT ![k] = Respond(@, RejectResponse)]
    /\ UNCHANGED <<store, ptask, gtask, calls, clock>>

(* lines 53-71: confirmed is true; job["yaml_url"] raises KeyError when the
   document has no such field, which the handler turns into a 500 *)
confirm_diagrams_accept(k) ==
    /\ creq[k].pc = "checked"
    /\ creq[k].confirmed
    /\ IF Has(creq[k].job, "yaml_url")
       THEN /\ jobs' = update_job(jobs, creq[k].job_id, ConfirmUpdates(creq[k].job))
            /\ gtask' = [gtask EXCEPT ![k].pc = "start", ![k].job_id = creq[k].job_id]
            /\ creq' = [creq EXCEPT ![k] = Respond(@, ConfirmResponse)]
       ELSE /\ creq' = [creq EXCEPT ![k] = Respond(@, ErrorResponse(500))]
            /\ UNCHANGED <<jobs, gtask>>
    /\ UNCHANGED <<store, ptask, calls, clock>>

(* ---- JobService.generate_terraform ---- *)

(* Variant of the update of lines 114-122 that leaves docs_url out. *)
CompletedUpdatesNoDocs(tf_urls, doc_url) ==
    [status |-> COMPLETED, terraform_urls |-> tf_urls,
     updated_at |-> utcnow, progress |-> 100, current_step |-> "IaC generation complete",
     message |-> "Infrastructure as Code generation complete"]

CompletedUpdates(tf_urls, doc_url) ==
    [status |-> COMPLETED, terraform_urls |-> tf_urls, docs_url |-> doc_url,
     updated_at |-> utcnow, progress |-> 100, current_step |-> "IaC generation complete",
     message |-> "Infrastructure as Code generation complete"]

(* Variant of the update of lines 126-131 that records the error and leaves
   the status as it is. *)
GenerateFailedUpdatesNoStatus(err) ==
    [updated_at |-> utcnow, error |-> err,
     message |-> "Terraform/docs generation failed"]

GenerateFailedUpdates(err) ==
    [status |-> FAILED, updated_at |-> utcnow, error |-> err,
     message |-> "Terraform/docs generation failed"]

(* lines 102-105: the job is read and the engine is called with
   job["yaml_content"]; a missing job or field raises before the call *)
generate_terraform_engine(k) ==
    LET j == gtask[k].job_id
        job == get_job(jobs, j)
    IN  /\ gtask[k].pc = "start"
        /\ IF job # NoJob /\ Has(job, "yaml_content")
           THEN /\ calls' = [calls EXCEPT ![j].iac = @ + 1]
                /\ \/ gtask' = [gtask EXCEPT ![k].pc = "get_terraform"]
                   \/ gtask' = [gtask EXCEPT ![k].pc = "except", ![k].err = "engine error"]
           ELSE /\ gtask' = [gtask EXCEPT ![k].pc = "except", ![k].err = "KeyError"]
                /\ UNCHANGED calls
        /\ UNCHANGED <<jobs, store, ptask, creq, clock>>

(* line 108: get_terraform_urls(job_id) *)
generate_terraform_get_urls(k) ==
    LET j == gtask[k].job_id
    IN  /\ gtask[k].pc = "get_terraform"
        /\ \/ /\ store' = [store EXCEPT ![j].terraform = TerraformFolderAfterListing(store[j])]
              /\ gtask' = [gtask EXCEPT ![k].pc = "store_docs",
                                        ![k].tf_urls = get_terraform_urls(store, j)]
           \/ /\ gtask' = [gtask EXCEPT ![k].pc = "except", ![k].err = "store error"]
              /\ UNCHANGED store
        /\ UNCHANGED <<jobs, ptask, creq, calls, clock>>

(* line 111: store_text(job_id, "docs/documentation.md", ...) *)
generate_terraform_store_docs(k) ==
    LET j == gtask[k].job_id
    IN  /\ gtask[k].pc = "store_docs"
        /\ \/ /\ store' = [store EXCEPT ![j].docs = TRUE,
                                         ![j].written = @ \cup {<<"docs", "documentation.md">>}]
              /\ gtask' = [gtask EXCEPT ![k].pc = "finish",
                                        ![k].doc_url = Url(j, <<"docs", "documentation.md">>)]
           \/ /\ gtask' = [gtask EXCEPT ![k].pc = "except", ![k].err = "store error"]
              /\ UNCHANGED store
        /\ UNCHANGED <<jobs, ptask, creq, calls, clock>>

(* lines 114-122 *)
generate_terraform_finish(k) ==
    /\ gtask[k].pc = "finish"
    /\ jobs' = update_job(jobs, gtask[k].job_id,
                          CompletedUpdates(gtask[k].tf_urls, gtask[k].doc_url))
    /\ gtask' = [gtask EXCEPT ![k] = [NoGTask EXCEPT !.pc = "done", !.job_id = gtask[k].job_id]]
    /\ UNCHANGED <<store, ptask, creq, calls, clock>>

(* lines 124-131 *)
generate_terraform_except(k) ==
    /\ gtask[k].pc = "except"
    /\ jobs' = update_job(jobs, gtask[k].job_id, GenerateFailedUpdates(gtask[k].err))
    /\ gtask' = [gtask EXCEPT ![k] = [NoGTask EXCEPT !.pc = "done", !.job_id = gtask[k].job_id]]
    /\ UNCHANGED <<store, ptask, creq, calls, clock>>

(* ---- GET /api/diagrams/{job_id} (routers/diagrams.py) ---- *)
(* Variant of the check of line 28 that also lets a failed job through. *)
DiagramsAvailableOrFailed == {DIAGRAMS_READY, CONFIRMED, GENERATING, COMPLETED, FAILED}

(* line 28: the statuses the listing is served in *)
DiagramsAvailable == {DIAGRAMS_READY, CONFIRMED, GENERATING, COMPLETED}

(* The responses the handler can give in a state: 404 for no job, 400 naming
   the status outside DiagramsAvailable, otherwise the listing, or 500 when
   the store call raises or lists nothing (the HTTPException(404) of line 40
   is raised inside the try of line 35 and caught by its except Exception). *)
get_diagrams_responses(js, st, j) ==
    LET job == get_job(js, j)
    IN  IF job = NoJob
        THEN {HTTPException(404, "Job not found")}
        ELSE IF job.status \notin DiagramsAvailable
        THEN {HTTPException(400, <<"Diagrams not yet available. Current status: ",
                                   job.status>>)}
        ELSE {IF get_diagram_urls(st, j) = {}
              THEN HTTPException(500, "Failed to retrieve diagrams")
              ELSE [code |-> 200, job_id |-> j, diagrams |-> get_diagram_urls(st, j)],
              HTTPException(500, "Failed to retrieve diagrams")}

(* The request: the store is touched (placeholder creation of
   get_diagram_urls) only when the listing was made. *)
get_diagrams(j) ==
    /\ \E r \in get_diagrams_responses(jobs, store, j) :
          store' = IF r.code = 200
                   THEN [store EXCEPT ![j].diagrams = DiagramFolderAfterListing(store[j])]
                   ELSE store
    /\ UNCHANGED <<jobs, ptask, creq, gtask, calls, clock>>

(* ---- GET /api/generate/{job_id} (routers/generation.py) ---- *)

(* get_documentation_url: the placeholder is written when the file is
   missing and the fixed locator is returned. *)
get_documentation_url(st, j) == Url(j, <<"docs", "documentation.md">>)

(* The responses the handler can give in a state: 404 for no job, 400 naming
   the status unless it is completed, otherwise the three listings, or 500
   when a store call raises or the code listing is empty (lines 40-44 raise
   inside the try of line 35). *)
get_generated_output_responses(js, st, j) ==
    LET job == get_job(js, j)
    IN  IF job = NoJob
        THEN {HTTPException(404, "Job not found")}
        ELSE IF job.status # COMPLETED
        THEN {HTTPException(400, <<"Generation not yet complete. Current status: ",
                                   job.status>>)}
        ELSE {IF get_terraform_urls(st, j) = {} \/ get_documentation_url(st, j) = Absent
              THEN HTTPException(500, "Failed to retrieve generated files")
              ELSE [code |-> 200, job_id |-> j,
                    terraform_files |-> get_terraform_urls(st, j),
                    documentation_url |-> get_documentation_url(st, j),
                    diagrams |-> get_diagram_urls(st, j)],
              HTTPException(500, "Failed to retrieve generated files")}

(* The request: on a listing the three store calls create their
   placeholders where a file is missing. *)
get_generated_output(j) ==
    /\ \E r \in get_generated_output_responses(jobs, store, j) :
          store' = IF r.code = 200
                   THEN [store EXCEPT ![j].terraform = TerraformFolderAfterListing(store[j]),
                                      ![j].docs = TRUE,
                                      ![j].diagrams = DiagramFolderAfterListing(store[j])]
                   ELSE store
    /\ UNCHANGED <<jobs, ptask, creq, gtask, calls, clock>>

(* ---- GET /api/status/{job_id} (routers/status.py) ---- *)

(* job.get(f): None when the document has no such field *)
Get(doc, f) == IF Has(doc, f) THEN doc[f] ELSE "None"

(* Variant of the response body that always reports no error. *)
StatusBodyNoError(job) ==
    [code |-> 200, job_id |-> job.job_id, status |-> job.status,
     created_at |-> job.created_at, updated_at |-> job.updated_at,
     message |-> Get(job, "message"), error |-> "None",
     progress |-> Get(job, "progress"), current_step |-> Get(job, "current_step")]

(* lines 25-34 *)
StatusBody(job) ==
    [code |-> 200, job_id |-> job.job_id, status |-> job.status,
     created_at |-> job.created_at, updated_at |-> job.updated_at,
     message |-> Get(job, "message"), error |-> Get(job, "error"),
     progress |-> Get(job, "progress"), current_step |-> Get(job, "current_step")]

get_job_status_response(js, j) ==
    LET job == get_job(js, j)
    IN  IF job = NoJob THEN HTTPException(404, "Job not found") ELSE StatusBody(job)

(* The request reads the ledger and writes nothing. *)
get_job_status(j) ==
    /\ get_job_status_response(jobs, j).code \in {200, 404}
    /\ UNCHANGED vars

Next ==
    \/ \E j \in JobIds, request \in ProcessRequests : process_nl_prompt(j, request)
    \/ \E j \in JobIds : process_job_start(j)
    \/ \E j \in JobIds : process_job_engine(j)
    \/ \E j \in JobIds : process_job_store_yaml(j)
    \/ \E j \in JobIds : process_job_get_diagrams(j)
    \/ \E j \in JobIds : process_job_finish(j)
    \/ \E j \in JobIds : process_job_except(j)
    \/ \E k \in Slots, j \in JobIds, request \in ConfirmRequests :
            confirm_diagrams_read(k, j, request)
    \/ \E k \in Slots : confirm_diagrams_reject(k)
    \/ \E k \in Slots : confirm_diagrams_accept(k)
    \/ \E k \in Slots : generate_terraform_engine(k)
    \/ \E k \in Slots : generate_terraform_get_urls(k)
    \/ \E k \in Slots : generate_terraform_store_docs(k)
    \/ \E k \in Slots : generate_terraform_finish(k)
    \/ \E k \in Slots : generate_terraform_except(k)
    \/ \E j \in JobIds : get_job_status(j)
    \/ \E j \in JobIds : get_diagrams(j)
    \/ \E j \in JobIds : get_generated_output(j)

Spec == Init /\ [][Next]_vars

(* ---- the run in which every engine and store call returns ---- *)

(* No task takes the branch of a raising engine or store call in the step. *)
CallsSucceed ==
    /\ \A j \in JobIds : ptask'[j].err \notin {"engine error", "store error"}
    /\ \A k \in Slots : gtask'[k].err \notin {"engine error", "store error"}

(* The user answers the diagrams with confirmed = true only, with or
   without a feedback text. *)
AcceptingRequests ==
    {[confirmed |-> TRUE, feedback |-> "Looks good!"],
     [confirmed |-> TRUE, feedback |-> NoFeedback]}

HappyNext ==
    \/ \E j \in JobIds, request \in ProcessRequests : process_nl_prompt(j, request)
    \/ \E j \in JobIds : process_job_start(j)
    \/ \E j \in JobIds : process_job_engine(j) /\ CallsSucceed
    \/ \E j \in JobIds : process_job_store_yaml(j) /\ CallsSucceed
    \/ \E j \in JobIds : process_job_get_diagrams(j) /\ CallsSucceed
    \/ \E j \in JobIds : process_job_finish(j)
    \/ \E k \in Slots, j \in JobIds, request \in AcceptingRequests :
            confirm_diagrams_read(k, j, request)
    \/ \E k \in Slots : confirm_diagrams_accept(k)
    \/ \E k \in Slots : generate_terraform_engine(k) /\ CallsSucceed
    \/ \E k \in Slots : generate_terraform_get_urls(k) /\ CallsSucceed
    \/ \E k \in Slots : generate_terraform_store_docs(k) /\ CallsSucceed
    \/ \E k \in Slots : generate_terraform_finish(k)
    \/ \E j \in JobIds : get_job_status(j)
    \/ \E j \in JobIds : get_diagrams(j)
    \/ \E j \in JobIds : get_generated_output(j)

(* Background tasks and the handler of an accepted request run on: every
   step of theirs that stays enabled is taken. *)
HappyFairness ==
    /\ \A j \in JobIds :
          /\ WF_vars(process_job_start(j))
          /\ WF_vars(process_job_engine(j) /\ CallsSucceed)
          /\ WF_vars(process_job_store_yaml(j) /\ CallsSucceed)
          /\ WF_vars(process_job_get_diagrams(j) /\ CallsSucceed)
          /\ WF_vars(process_job_finish(j))
    /\ \A k \in Slots :
          /\ WF_vars(confirm_diagrams_accept(k))
          /\ WF_vars(generate_terraform_engine(k) /\ CallsSucceed)
          /\ WF_vars(generate_terraform_get_urls(k) /\ CallsSucceed)
          /\ WF_vars(generate_terraform_store_docs(k) /\ CallsSucceed)
          /\ WF_vars(generate_terraform_finish(k))

HappySpec == Init /\ [][HappyNext]_vars /\ HappyFairness

(* ---- the run with a clock that advances ---- *)

(* Time passes between any two steps; datetime.utcnow() is read in the step
   that builds an update. *)
Tick ==
    /\ clock < MaxClock
    /\ clock' = clock + 1
    /\ UNCHANGED <<jobs, store, ptask, creq, gtask, calls>>

TimedNext == Next \/ Tick

TimedSpec == Init /\ [][TimedNext]_vars

(* ---- the run in which an engine call may never return ---- *)

(* line 68: the awaited generate_yaml_and_diagram does not return; the task
   has no other statement to run while it waits. *)
process_job_engine_hangs(j) ==
    /\ ptask[j].pc = "engine"
    /\ calls' = [calls EXCEPT ![j].yaml = @ + 1]
    /\ ptask' = [ptask EXCEPT ![j].pc = "awaiting_engine"]
    /\ UNCHANGED <<jobs, store, creq, gtask, clock>>

(* line 105: the awaited generate_iac_and_docs does not return *)
generate_terraform_engine_hangs(k) ==
    LET j == gtask[k].job_id
        job == get_job(jobs, j)
    IN  /\ gtask[k].pc = "start"
        /\ job # NoJob /\ Has(job, "yaml_content")
        /\ calls' = [calls EXCEPT ![j].iac = @ + 1]
        /\ gtask' = [gtask EXCEPT ![k].pc = "awaiting_engine"]
        /\ UNCHANGED <<jobs, store, ptask, creq, clock>>

HangingNext ==
    \/ Next
    \/ \E j \in JobIds : process_job_engine_hangs(j)
    \/ \E k \in Slots : generate_terraform_engine_hangs(k)

(* The event loop runs every statement of a task and of a handler that can
   run. *)
TaskFairness ==
    /\ \A j \in JobIds :
          /\ WF_vars(process_job_start(j))
          /\ WF_vars(process_job_engine(j) \/ process_job_engine_hangs(j))
          /\ WF_vars(process_job_store_yaml(j))
          /\ WF_vars(process_job_get_diagrams(j))
          /\ WF_vars(process_job_finish(j))
          /\ WF_vars(process_job_except(j))
    /\ \A k \in Slots :
          /\ WF_vars(confirm_diagrams_reject(k))
          /\ WF_vars(confirm_diagrams_accept(k))
          /\ WF_vars(generate_terraform_engine(k) \/ generate_terraform_engine_hangs(k))
          /\ WF_vars(generate_terraform_get_urls(k))
          /\ WF_vars(generate_terraform_store_docs(k))
          /\ WF_vars(generate_terraform_finish(k))
          /\ WF_vars(generate_terraform_except(k))

HangingSpec == Init /\ [][HangingNext]_vars /\ TaskFairness

(* ---- the run in which the ledger may fail ---- *)

(* The job document is gone from the collection (removed outside the
   service): update_job then finds doc.exists false and returns False. *)
document_missing(j) ==
    /\ Exists(jobs, j)
    /\ jobs' = [jobs EXCEPT ![j] = NoJob]
    /\ UNCHANGED <<store, ptask, creq, gtask, calls, clock>>

(* lines 60-65: doc_ref.get / doc_ref.update raises inside the try *)
process_job_start_raises(j) ==
    /\ ptask[j].pc = "start"
    /\ ptask' = [ptask EXCEPT ![j].pc = "except", ![j].err = "ledger error"]
    /\ UNCHANGED <<jobs, store, creq, gtask, calls, clock>>

(* lines 77-85 *)
process_job_finish_raises(j) ==
    /\ ptask[j].pc = "finish"
    /\ ptask' = [ptask EXCEPT ![j].pc = "except", ![j].err = "ledger error"]
    /\ UNCHANGED <<jobs, store, creq, gtask, calls, clock>>

(* lines 89-94: the write of the except branch raises; the exception leaves
   the task *)
process_job_except_raises(j) ==
    /\ ptask[j].pc = "except"
    /\ ptask' = [ptask EXCEPT ![j] = [NoPTask EXCEPT !.pc = "done"]]
    /\ UNCHANGED <<jobs, store, creq, gtask, calls, clock>>

(* lines 114-122 *)
generate_terraform_finish_raises(k) ==
    /\ gtask[k].pc = "finish"
    /\ gtask' = [gtask EXCEPT ![k].pc = "except", ![k].err = "ledger error"]
    /\ UNCHANGED <<jobs, store, ptask, creq, calls, clock>>

(* lines 126-131 *)
generate_terraform_except_raises(k) ==
    /\ gtask[k].pc = "except"
    /\ gtask' = [gtask EXCEPT ![k] = [NoGTask EXCEPT !.pc = "done", !.job_id = gtask[k].job_id]]
    /\ UNCHANGED <<jobs, store, ptask, creq, calls, clock>>

(* An id that was given out is not given out again. *)
LedgerNext ==
    \/ \E j \in JobIds, request \in ProcessRequests :
            ptask[j].pc = "none" /\ process_nl_prompt(j, request)
    \/ \E j \in JobIds : document_missing(j)
    \/ \E j \in JobIds : process_job_start(j)
    \/ \E j \in JobIds : process_job_start_raises(j)
    \/ \E j \in JobIds : process_job_engine(j)
    \/ \E j \in JobIds : process_job_store_yaml(j)
    \/ \E j \in JobIds : process_job_get_diagrams(j)
    \/ \E j \in JobIds : process_job_finish(j)
    \/ \E j \in JobIds : process_job_finish_raises(j)
    \/ \E j \in JobIds : process_job_except(j)
    \/ \E j \in JobIds : process_job_except_raises(j)
    \/ \E k \in Slots, j \in JobIds, request \in ConfirmRequests :
            confirm_diagrams_read(k, j, request)
    \/ \E k \in Slots : confirm_diagrams_reject(k)
    \/ \E k \in Slots : confirm_diagrams_accept(k)
    \/ \E k \in Slots : generate_terraform_engine(k)
    \/ \E k \in Slots : generate_terraform_get_urls(k)
    \/ \E k \in Slots : generate_terraform_store_docs(k)
    \/ \E k \in Slots : generate_terraform_finish(k)
    \/ \E k \in Slots : generate_terraform_finish_raises(k)
    \/ \E k \in Slots : generate_terraform_except(k)
    \/ \E k \in Slots : generate_terraform_except_raises(k)
    \/ \E j \in JobIds : get_job_status(j)
    \/ \E j \in JobIds : get_diagrams(j)
    \/ \E j \in JobIds : get_generated_output(j)

LedgerSpec == Init /\ [][LedgerNext]_vars

(***************************************************************************)
(* Properties                                                              *)
(***************************************************************************)
Terminal == {COMPLETED, FAILED}

(* The stage tasks of job j that have started and have not finished. *)
ActiveTasks(j) ==
    (IF ptask[j].pc \in {"engine", "store_yaml", "get_diagrams", "finish", "except"}
     THEN {<<"process_job", j>>} ELSE {})
    \cup
    {<<"generate_terraform", k>> : k \in {k \in Slots :
        /\ gtask[k].job_id = j
        /\ gtask[k].pc \in {"get_terraform", "store_docs", "finish", "except"}}}

(* The confirm requests on job j with confirmed=true that have been answered. *)
AnsweredConfirms(j) ==
    {k \in Slots : creq[k].pc = "done" /\ creq[k].job_id = j /\ creq[k].confirmed}

(* The transition graph of the orchestrator. *)
StatusGraph ==
    {<<PENDING, PROCESSING>>, <<PROCESSING, DIAGRAMS_READY>>, <<PROCESSING, FAILED>>,
     <<DIAGRAMS_READY, FAILED>>, <<DIAGRAMS_READY, GENERATING>>,
     <<GENERATING, COMPLETED>>, <<GENERATING, FAILED>>}

(* C1: every change of a job's stored status follows one edge of the
   transition graph pending -> processing -> diagrams_ready -> generating ->
   completed, with failed reachable from processing, diagrams_ready and
   generating; no other change of status occurs. *)
C1_StatusFollowsGraph ==
    [][\A j \in JobIds :
          (Exists(jobs, j) /\ jobs'[j].status # jobs[j].status)
              => <<jobs[j].status, jobs'[j].status>> \in StatusGraph]_vars

(* C2: the stage-2 engine call is never made for a job, and the job is never
   completed, unless a confirm request with confirmed=true on that job was
   accepted by a handler that read the status diagrams_ready. *)
C2_StageTwoGatedOnConfirm ==
    \A j \in JobIds :
        (calls[j].iac > 0 \/ jobs[j].status = COMPLETED)
            => \E k \in AnsweredConfirms(j) :
                  creq[k].code = 200 /\ creq[k].seen = DIAGRAMS_READY

C2_Witness ==
    \E j \in JobIds : calls[j].iac > 0 /\ jobs[j].status = COMPLETED

(* C3: of two confirm requests with confirmed=true on the same job at most one
   succeeds, the other is answered with the precondition error, and the
   stage-2 engine call is made at most once for the job. *)
C3_ConfirmSucceedsAtMostOnce ==
    \A j \in JobIds :
        /\ calls[j].iac <= 1
        /\ \A k1 \in AnsweredConfirms(j), k2 \in AnsweredConfirms(j) :
              (k1 # k2 /\ creq[k1].code = 200) => creq[k2].code = 400

(* C4: at most one stage task (process_job or generate_terraform) of a job is
   active, that is started and not finished, at any time. *)
C4_OneActiveStageTask ==
    \A j \in JobIds : Cardinality(ActiveTasks(j)) <= 1

(* C5: once a job's stored status is failed or completed no later step
   changes it, and no stage task is scheduled for the job afterwards. *)
C5_TerminalIsFinal ==
    [][\A j \in JobIds :
          jobs[j].status \in Terminal
              => /\ jobs'[j].status = jobs[j].status
                 /\ \A k \in Slots :
                       (gtask[k].pc = "none" /\ gtask'[k].pc # "none")
                           => gtask'[k].job_id # j]_vars

(* C6: a transition is a compare-and-update: a confirm handler that read the
   expected status and writes when the stored status is no longer the one it
   read is answered with the precondition error and changes no record. *)
C6_CompareAndUpdate ==
    [][\A k \in Slots :
          (/\ creq[k].pc = "checked"
           /\ creq'[k].pc = "done"
           /\ jobs[creq[k].job_id].status # creq[k].seen)
              => (jobs' = jobs /\ gtask' = gtask /\ creq'[k].code = 400)]_vars

(* C7: a confirm request, with either decision, whose read of the ledger
   finds the job with a status other than diagrams_ready is answered with the
   precondition error, changes no field of any job record and schedules no
   stage task. *)
C7_ConfirmOutsideDiagramsReady ==
    [][\A k \in Slots :
          (/\ creq[k].pc = "idle"
           /\ creq'[k].pc # "idle"
           /\ Exists(jobs, creq'[k].job_id)
           /\ jobs[creq'[k].job_id].status # DIAGRAMS_READY)
              => /\ creq'[k].pc = "done"
                 /\ creq'[k].code = 400
                 /\ jobs' = jobs
                 /\ gtask' = gtask
                 /\ ptask' = ptask]_vars

C7_Witness ==
    \E k1 \in Slots, k2 \in Slots :
        /\ creq[k1].pc = "done" /\ creq[k1].code = 400 /\ creq[k1].confirmed
        /\ creq[k2].pc = "done" /\ creq[k2].code = 400 /\ ~creq[k2].confirmed
        /\ creq[k1].job_id = creq[k2].job_id
        /\ jobs[creq[k1].job_id].status = PENDING

(* C8: a confirm request with confirmed=false on a job in diagrams_ready sets
   the stored status to failed, the error to the rejection reason and the
   stored message to the feedback (or to the default text when there is no
   feedback), and the message of the response is that stored message. *)
C8_RejectStoresAndReportsFeedback ==
    [][\A k \in Slots :
          (/\ creq[k].pc = "checked"
           /\ ~creq[k].confirmed
           /\ creq'[k].pc = "done"
           /\ jobs[creq[k].job_id].status = DIAGRAMS_READY)
              => LET job == jobs'[creq[k].job_id]
                 IN  /\ job.status = FAILED
                     /\ job.error = "User rejected the diagrams"
                     /\ job.message = IF creq[k].feedback = NoFeedback
                                      THEN "Diagrams rejected by user"
                                      ELSE creq[k].feedback
                     /\ creq'[k].message = job.message]_vars

(* C9: when the stage-1 task succeeds the job becomes diagrams_ready with the
   yaml locator and the diagram locators recorded and progress 70; and in
   every state where the status is diagrams_ready these locators are present
   and the diagram listing of the job is not empty. *)
C9_ReadyRecord(j) ==
    /\ jobs[j].status = DIAGRAMS_READY
    /\ Has(jobs[j], "yaml_url") /\ jobs[j].yaml_url # Absent
    /\ Has(jobs[j], "diagram_urls") /\ jobs[j].diagram_urls # {}
    /\ Has(jobs[j], "progress") /\ jobs[j].progress = 70
    /\ get_diagram_urls(store, j) # {}

C9_DiagramsReadyHasLocators ==
    /\ [](\A j \in JobIds : jobs[j].status = DIAGRAMS_READY => C9_ReadyRecord(j))
    /\ [][\A j \in JobIds :
             (ptask[j].pc = "finish" /\ ptask'[j].pc = "done") => C9_ReadyRecord(j)']_vars

C9_Witness ==
    \E j \in JobIds : ptask[j].pc = "done" /\ jobs[j].status = DIAGRAMS_READY

(* C10: in every state where a job's stored status is completed, progress is
   100 and the terraform locators, the documentation locator, the diagram
   locators and the yaml locator are all recorded. *)
C10_CompletedHasAllLocators ==
    \A j \in JobIds :
        jobs[j].status = COMPLETED
            => /\ Has(jobs[j], "progress") /\ jobs[j].progress = 100
               /\ Has(jobs[j], "terraform_urls") /\ jobs[j].terraform_urls # {}
               /\ Has(jobs[j], "docs_url") /\ jobs[j].docs_url # Absent
               /\ Has(jobs[j], "diagram_urls") /\ jobs[j].diagram_urls # {}
               /\ Has(jobs[j], "yaml_url") /\ jobs[j].yaml_url # Absent

C10_Witness ==
    \E j \in JobIds : jobs[j].status = COMPLETED /\ \E k \in Slots : gtask[k].pc = "done"

(* The generate_terraform tasks of job j that have gone past their first
   step (the read of the job and the engine call). *)
StartedGTasks(j) ==
    {k \in Slots : gtask[k].job_id = j /\ gtask[k].pc \notin {"none", "start"}}

(* C11: when the engine call or a store call raises in a stage task, the task
   ends by writing status failed, the failure reason as error and the stage's
   summary as message; that step calls no engine and schedules no task, and
   no stage task calls the engine more than once. *)
C11_StageFailureEndsFailed ==
    /\ [](\A j \in JobIds :
            /\ calls[j].yaml <= (IF ptask[j].pc \in {"none", "start", "engine"} THEN 0 ELSE 1)
            /\ calls[j].iac <= Cardinality(StartedGTasks(j))
            /\ ptask[j].err # "" => ptask[j].pc = "except"
            /\ \A k \in Slots : gtask[k].err # "" => gtask[k].pc = "except")
    /\ [][\A j \in JobIds :
             (ptask[j].pc = "except" /\ ptask'[j].pc # "except")
                 => /\ ptask'[j].pc = "done"
                    /\ jobs'[j].status = FAILED
                    /\ jobs'[j].error = ptask[j].err
                    /\ jobs'[j].message = "CrewAI diagram generation failed"
                    /\ calls' = calls
                    /\ gtask' = gtask
                    /\ \A i \in JobIds \ {j} : ptask'[i] = ptask[i]]_vars
    /\ [][\A k \in Slots :
             (gtask[k].pc = "except" /\ gtask'[k].pc # "except")
                 => LET j == gtask[k].job_id
                    IN  /\ gtask'[k].pc = "done"
                        /\ jobs'[j].status = FAILED
                        /\ jobs'[j].error = gtask[k].err
                        /\ jobs'[j].message = "Terraform/docs generation failed"
                        /\ calls' = calls
                        /\ ptask' = ptask
                        /\ \A i \in Slots \ {k} : gtask'[i] = gtask[i]]_vars

C11_Witness ==
    \E j \in JobIds, k \in Slots :
        /\ gtask[k].pc = "done" /\ gtask[k].job_id = j
        /\ jobs[j].status = FAILED /\ jobs[j].error = "store error"
        /\ calls[j].iac = 1

(* C12: for an existing job the diagrams listing is served only when the
   stored status is diagrams_ready, confirmed, generating or completed; for
   pending, processing and failed the only response is the 400 that names
   the current status and carries no listing. *)
C12_DiagramsGatedOnStatus ==
    \A j \in JobIds :
        Exists(jobs, j) =>
            \A r \in get_diagrams_responses(jobs, store, j) :
                /\ r.code = 200 =>
                      /\ jobs[j].status \in {DIAGRAMS_READY, CONFIRMED, GENERATING, COMPLETED}
                      /\ r.diagrams # {}
                /\ jobs[j].status \in {PENDING, PROCESSING, FAILED} =>
                      /\ r.code = 400
                      /\ r.detail[2] = jobs[j].status
                      /\ ~Has(r, "diagrams")

C12_Witness ==
    \E j \in JobIds :
        /\ jobs[j].status = FAILED
        /\ store[j].diagrams # {}
        /\ \E r \in get_diagrams_responses(jobs, store, j) : r.code = 400

(* The generate_terraform tasks of job j that were scheduled by an accepted
   confirm and have not finished. *)
RunningGTasks(j) ==
    {k \in Slots : gtask[k].job_id = j /\ gtask[k].pc \notin {"none", "done"}}

(* C13: the final-artifacts request succeeds only when the stored status is
   completed, and then with a non-empty code listing and a documentation
   locator; while a stage-2 task of the job is running every response is the
   400 precondition error; a completed job can be served. *)
C13_FinalArtifactsGatedOnCompleted ==
    \A j \in JobIds :
        Exists(jobs, j) =>
            /\ \A r \in get_generated_output_responses(jobs, store, j) :
                  /\ r.code = 200 =>
                        /\ jobs[j].status = COMPLETED
                        /\ r.terraform_files # {}
                        /\ r.documentation_url # Absent
                  /\ RunningGTasks(j) # {} => r.code = 400
            /\ jobs[j].status = COMPLETED =>
                  \E r \in get_generated_output_responses(jobs, store, j) : r.code = 200

(* The record of job j is the one a stage-2 task wrote after its engine call
   raised. *)
Stage2EngineFailed(j) ==
    /\ jobs[j].status = FAILED
    /\ Has(jobs[j], "error") /\ jobs[j].error = "engine error"
    /\ calls[j].iac > 0

(* C14: a stage-2 task whose engine call raised ends by writing failed with
   the error set, and from a job so failed no step makes the status
   completed or lets the final-artifacts request succeed. *)
C14_FailedStageTwoStaysUnexposed ==
    /\ [][\A k \in Slots :
             (gtask[k].pc = "except" /\ gtask[k].err = "engine error" /\ gtask'[k].pc = "done")
                 => /\ jobs'[gtask[k].job_id].status = FAILED
                    /\ jobs'[gtask[k].job_id].error = "engine error"]_vars
    /\ [][\A j \in JobIds :
             Stage2EngineFailed(j)
                 => /\ jobs'[j].status # COMPLETED
                    /\ \A r \in get_generated_output_responses(jobs', store', j) :
                          r.code # 200]_vars

(* C15: a valid create request is answered with status pending, and the step
   that creates a record creates exactly that one, with status pending and
   created_at = updated_at, and schedules exactly its stage-1 task; a request
   with a prompt under 10 or a project name under 3 characters is answered
   with the validation error, so no record holds such input and no task
   exists without a record. *)
C15_CreateJob ==
    /\ [](\A request \in ProcessRequests, j \in JobIds :
            LET r == process_nl_prompt_response(j, request)
            IN  IF StrLen(request.prompt) < 10 \/ StrLen(request.project_name) < 3
                THEN r.code = 422 /\ ~Has(r, "job_id")
                ELSE r.code = 202 /\ r.status = PENDING /\ r.job_id = j)
    /\ [](\A j \in JobIds :
            /\ Exists(jobs, j) =>
                  StrLen(jobs[j].prompt) >= 10 /\ StrLen(jobs[j].project_name) >= 3
            /\ ptask[j].pc # "none" => Exists(jobs, j))
    /\ [][\A j \in JobIds :
             (~Exists(jobs, j) /\ Exists(jobs', j))
                 => /\ jobs'[j].status = PENDING
                    /\ jobs'[j].job_id = j
                    /\ jobs'[j].created_at = jobs'[j].updated_at
                    /\ ptask[j].pc = "none" /\ ptask'[j].pc = "start"
                    /\ \A i \in JobIds \ {j} : jobs'[i] = jobs[i] /\ ptask'[i] = ptask[i]
                    /\ gtask' = gtask]_vars

C15_Witness ==
    \E j \in JobIds :
        /\ jobs[j].status = PENDING
        /\ jobs[j].created_at = jobs[j].updated_at
        /\ ptask[j].pc = "start"
        /\ \A i \in JobIds \ {j} : ptask[i].pc # "start"

(* C16: create_job called with the job_id of an existing record leaves that
   record as it is (the call is refused). *)
C16_CreateExistingIsRefused ==
    \A j \in JobIds, request \in ProcessRequests :
        (Exists(jobs, j) /\ ProcessRequestValid(request)) =>
            create_job(jobs, NewJobData(j, request.prompt, request.cloud_provider,
                                        request.project_name))[j] = jobs[j]

(* C17: for a job id with no record, job-status, diagrams and final-artifacts
   answer 404 and a confirm is answered 404 in a step that changes no record,
   no folder and no task; nothing is stored or scheduled under an id that
   has no record. For an existing job, job-status returns the stored status,
   progress, current_step, message and error. *)
C17_UnknownJobIsNotFound ==
    /\ [](\A j \in JobIds :
            IF ~Exists(jobs, j)
            THEN /\ get_job_status_response(jobs, j).code = 404
                 /\ \A r \in get_diagrams_responses(jobs, store, j) : r.code = 404
                 /\ \A r \in get_generated_output_responses(jobs, store, j) : r.code = 404
                 /\ store[j] = EmptyFolder
                 /\ ptask[j].pc = "none"
                 /\ \A k \in Slots : gtask[k].pc # "none" => gtask[k].job_id # j
            ELSE LET r == get_job_status_response(jobs, j)
                 IN  /\ r.code = 200
                     /\ r.status = jobs[j].status
                     /\ \A f \in {"progress", "current_step", "message", "error"} :
                           r[f] = (IF f \in DOMAIN jobs[j] THEN jobs[j][f] ELSE "None"))
    /\ [][\A k \in Slots :
             (creq[k].pc = "idle" /\ creq'[k].pc # "idle" /\ ~Exists(jobs, creq'[k].job_id))
                 => /\ creq'[k].pc = "done" /\ creq'[k].code = 404
                    /\ jobs' = jobs /\ store' = store
                    /\ ptask' = ptask /\ gtask' = gtask]_vars

C17_Witness ==
    \E k \in Slots, j \in JobIds :
        /\ creq[k].pc = "done" /\ creq[k].code = 404 /\ creq[k].job_id = j
        /\ jobs[j].status = FAILED /\ Has(jobs[j], "error")
        /\ get_job_status_response(jobs, j).error = jobs[j].error

(* The file names a stage wrote through the store under one category. *)
WrittenNames(folder, category) ==
    {w[2] : w \in {x \in folder.written : x[1] = category}}

(* C18: what a listing returns for a job and category is exactly what was
   written to the store for them (nothing, when nothing was written), and a
   step that lists adds no file to the store. *)
C18_ListingRoundTrip ==
    /\ [](\A j \in JobIds :
            /\ jobs[j].status \in DiagramsAvailable =>
                  {d.name : d \in get_diagram_urls(store, j)} = WrittenNames(store[j], "diagrams")
            /\ jobs[j].status = COMPLETED =>
                  {t.name : t \in get_terraform_urls(store, j)} = WrittenNames(store[j], "terraform"))
    /\ [][\A j \in JobIds :
             (ptask[j].pc = "get_diagrams" /\ ptask'[j].pc = "finish") => store' = store]_vars
    /\ [][\A k \in Slots :
             (gtask[k].pc = "get_terraform" /\ gtask'[k].pc = "store_docs") => store' = store]_vars

(* The confirm requests on job j that were answered 200 with confirmed true. *)
AcceptedConfirms(j) ==
    {k \in Slots : creq[k].pc = "done" /\ creq[k].job_id = j /\ creq[k].code = 200
                   /\ creq[k].confirmed}

(* C19: when every engine and store call returns and tasks are scheduled
   fairly, a created job reaches diagrams_ready, and once a confirm with
   confirmed = true was accepted it reaches completed; the status is never
   failed, and a completed job is served its final artifacts. *)
C19_HappyPathCompletes ==
    /\ [](\A j \in JobIds :
            /\ jobs[j].status # FAILED
            /\ jobs[j].status = COMPLETED =>
                  \E r \in get_generated_output_responses(jobs, store, j) :
                      r.code = 200 /\ r.terraform_files # {})
    /\ \A j \in JobIds :
          (jobs[j].status \in {PENDING, PROCESSING}) ~> (jobs[j].status = DIAGRAMS_READY)
    /\ \A j \in JobIds :
          (AcceptedConfirms(j) # {}) ~> (jobs[j].status = COMPLETED)

C19_Witness ==
    \E j \in JobIds :
        /\ jobs[j].status = COMPLETED
        /\ Cardinality(AcceptedConfirms(j)) = 1
        /\ \A k \in Slots : gtask[k].job_id = j => gtask[k].pc = "done"

(* C20: when the engine is called for a stage the stored status is already
   that stage's running status (processing for stage 1, generating for
   stage 2), and the status that follows a stage is written only by a task
   whose store calls of that stage have returned. *)
C20_StatusBracketsStageWork ==
    /\ [][\A j \in JobIds :
             calls'[j].yaml > calls[j].yaml => jobs[j].status = PROCESSING]_vars
    /\ [][\A j \in JobIds :
             calls'[j].iac > calls[j].iac => jobs[j].status = GENERATING]_vars
    /\ [][\A j \in JobIds :
             (jobs'[j].status = DIAGRAMS_READY /\ jobs[j].status # DIAGRAMS_READY)
                 => /\ ptask[j].pc = "finish"
                    /\ <<"yaml", "infrastructure.yaml">> \in store[j].written]_vars
    /\ [][\A j \in JobIds :
             (jobs'[j].status = COMPLETED /\ jobs'[j] # jobs[j])
                 => /\ \E k \in Slots : gtask[k].job_id = j /\ gtask[k].pc = "finish"
                    /\ <<"docs", "documentation.md">> \in store[j].written]_vars

(* C21: the step that answers a confirm with confirmed = true with 200
   leaves the stored status generating, the scheduled stage-2 task finds it
   so when it starts, and the status of the response is the stored one. *)
C21_AcceptStoresStageTwoStatus ==
    [][\A k \in Slots :
          (creq[k].pc = "checked" /\ creq[k].confirmed
             /\ creq'[k].pc = "done" /\ creq'[k].code = 200)
              => LET j == creq[k].job_id
                 IN  /\ jobs'[j].status = GENERATING
                     /\ gtask'[k].pc = "start"
                     /\ creq'[k].status = jobs'[j].status]_vars

(* The yaml text generate_yaml_and_diagram returned for job j in stage 1 and
   store_text wrote under yaml/infrastructure.yaml. *)
GeneratedYaml(j) == <<"yaml text of job", j>>

(* generate_terraform, line 105: the second argument of the engine call *)
Stage2Input(job) == job.yaml_content

(* C22: a scheduled stage-2 task finds yaml_content captured in the record,
   and what it hands to generate_iac_and_docs is the yaml text stage 1
   produced for the same job, not the locator of the file. *)
C22_StageTwoInputIsSpecContent ==
    /\ [](\A k \in Slots :
            gtask[k].pc = "start" => Has(jobs[gtask[k].job_id], "yaml_content"))
    /\ [][\A j \in JobIds :
             calls'[j].iac > calls[j].iac
                 => /\ Stage2Input(get_job(jobs, j)) = GeneratedYaml(j)
                    /\ Stage2Input(get_job(jobs, j)) # jobs[j].yaml_url]_vars

(* C23: update_job, the write that takes no expected status, never changes
   the status of a record: the records of existing jobs are written through
   update_job only, so no step changes the status of an existing job. *)
C23_UpdateJobKeepsStatus ==
    [][\A j \in JobIds :
          Exists(jobs, j) => jobs'[j].status = jobs[j].status]_vars

(* C24: a record holds an error only while its status is failed. *)
C24_ErrorOnlyWhenFailed ==
    \A j \in JobIds :
        Has(jobs[j], "error") => jobs[j].status = FAILED

(* The progress a record shows; -1 stands for a record without the field. *)
Progress(job) == IF Has(job, "progress") THEN job.progress ELSE -1

(* C25: progress is absent or an integer in 0..100, no step lowers or
   removes it, and a step that writes failed leaves it as it was. *)
C25_ProgressMonotone ==
    /\ [](\A j \in JobIds : Has(jobs[j], "progress") => jobs[j].progress \in 0..100)
    /\ [][\A j \in JobIds :
             /\ Progress(jobs'[j]) >= Progress(jobs[j])
             /\ (jobs'[j] # jobs[j] /\ jobs'[j].status = FAILED)
                   => Progress(jobs'[j]) = Progress(jobs[j])]_vars

C25_Witness ==
    \E j \in JobIds, k \in Slots :
        /\ gtask[k].pc = "done" /\ gtask[k].job_id = j
        /\ jobs[j].status = FAILED /\ jobs[j].error = "engine error"
        /\ Progress(jobs[j]) = 70

(* C26: every step that changes the record of an existing job stamps it with
   the time of the write, and updated_at never goes back and is never
   earlier than created_at. *)
C26_UpdatedAtOnEveryMutation ==
    /\ [](\A j \in JobIds :
            Exists(jobs, j) => jobs[j].updated_at >= jobs[j].created_at)
    /\ [][\A j \in JobIds :
             Exists(jobs, j) =>
                 /\ jobs'[j].updated_at >= jobs[j].updated_at
                 /\ jobs'[j] # jobs[j] => jobs'[j].updated_at = utcnow]_vars

(* C27: a record whose status is completed or failed carries no
   current_step label. *)
C27_CurrentStepClearedOnTerminal ==
    \A j \in JobIds :
        jobs[j].status \in {COMPLETED, FAILED}
            => Get(jobs[j], "current_step") \in {"None", ""}

(* C28: a job whose stage-1 task has started reaches diagrams_ready,
   completed or failed, and a job with a running stage-2 task reaches
   completed or failed, also when an engine call does not return. *)
C28_NoStageRunsForever ==
    /\ \A j \in JobIds :
          (ptask[j].pc # "none")
              ~> (jobs[j].status \in {DIAGRAMS_READY, COMPLETED, FAILED})
    /\ \A j \in JobIds :
          (RunningGTasks(j) # {})
              ~> (jobs[j].status \in {COMPLETED, FAILED})

(* C29: a stage task goes past a transition write only when the write was
   applied (it reaches the engine call only with processing stored, and ends
   its run only with diagrams_ready or completed stored), and a task that
   leaves its except branch has written failed or has left the record as it
   was. *)
C29_LedgerWriteNotDropped ==
    /\ [][\A j \in JobIds :
             /\ (ptask[j].pc = "start" /\ ptask'[j].pc = "engine")
                   => jobs'[j].status = PROCESSING
             /\ (ptask[j].pc = "finish" /\ ptask'[j].pc = "done")
                   => jobs'[j].status = DIAGRAMS_READY
             /\ (ptask[j].pc = "except" /\ ptask'[j].pc = "done")
                   => (jobs'[j].status = FAILED \/ jobs'[j] = jobs[j])]_vars
    /\ [][\A k \in Slots :
             /\ (gtask[k].pc = "finish" /\ gtask'[k].pc = "done")
                   => jobs'[gtask[k].job_id].status = COMPLETED
             /\ (gtask[k].pc = "except" /\ gtask'[k].pc = "done")
                   => \/ jobs'[gtask[k].job_id].status = FAILED
                      \/ jobs'[gtask[k].job_id] = jobs[gtask[k].job_id]]_vars

(* The fields of a record that are fixed at creation. *)
CreationFields == {"job_id", "created_at", "prompt", "cloud_provider", "project_name"}

(* C30: no step changes the job_id, the created_at or the request payload
   (prompt, cloud_provider, project_name) of an existing record, and no step
   removes the record. *)
C30_CreationFieldsImmutable ==
    [][\A j \in JobIds :
          Exists(jobs, j) =>
              /\ Exists(jobs', j)
              /\ \A f \in CreationFields : jobs'[j][f] = jobs[j][f]]_vars

C30_Witness ==
    \E j \in JobIds :
        /\ jobs[j].status = COMPLETED
        /\ jobs[j].job_id = j /\ jobs[j].created_at = 0
        /\ jobs[j].prompt = ValidPrompt /\ jobs[j].project_name = ValidProject
        /\ \E k \in Slots : creq[k].pc = "done" /\ creq[k].code = 200 /\ creq[k].job_id = j
        /\ Has(jobs[j], "error")

(* C31: the stored status of a job is always one of pending, processing,
   diagrams_ready, completed and failed; confirmed appears in the response
   of an accepted confirm only, and generating nowhere. *)
C31_StoredStatusNeverConfirmedOrGenerating ==
    /\ \A j \in JobIds :
          Exists(jobs, j) =>
              jobs[j].status \in {PENDING, PROCESSING, DIAGRAMS_READY, COMPLETED, FAILED}
    /\ \A k \in Slots : creq[k].status # GENERATING

C31_Witness ==
    \E k \in Slots :
        /\ creq[k].pc = "done" /\ creq[k].status = CONFIRMED
        /\ jobs[creq[k].job_id].status = DIAGRAMS_READY
        /\ gtask[k].pc \notin {"none", "start"}

(* C32: a job has a stage-1 task exactly when it has a record; the task is
   scheduled in the step that creates the record and is never scheduled
   again; generate_yaml_and_diagram is called at most once per job and only
   for a job that has a record. *)
C32_StageOneScheduledOnce ==
    /\ [](\A j \in JobIds :
            /\ (ptask[j].pc # "none") <=> Exists(jobs, j)
            /\ calls[j].yaml <= 1
            /\ calls[j].yaml > 0 => Exists(jobs, j))
    /\ [][\A j \in JobIds :
             /\ (ptask'[j].pc = "start" /\ ptask[j].pc # "start")
                   => /\ ptask[j].pc = "none"
                      /\ ~Exists(jobs, j) /\ Exists(jobs', j)
             /\ calls'[j].yaml > calls[j].yaml
                   => /\ Exists(jobs, j)
                      /\ ptask[j].pc = "engine"
                      /\ calls[j].yaml = 0]_vars

C32_Witness ==
    \E j \in JobIds :
        /\ jobs[j].status = COMPLETED
        /\ ptask[j].pc = "done"
        /\ calls[j].yaml = 1
        /\ calls[j].iac = 2

====
